---- MODULE Spec2Model ----
(***************************************************************************)
(* Model of easy_plot_beamline: the curve loader _load_data and the four   *)
(* plotting modes of Plotter (plotting.py).                                *)
(*                                                                         *)
(* Text is modelled as a sequence of characters, each character a          *)
(* one-element string.  Characters outside ASCII are written by code       *)
(* point: "U+00C5" is A-ring, "U+207B" superscript minus, "U+00B9",        *)
(* "U+00B2", "U+00B3" superscript one, two, three.  Numbers in files are   *)
(* decimal integers with an optional sign; float() is modelled on these.   *)
(***************************************************************************)
EXTENDS Integers, Sequences, FiniteSets, TLC

(***************************************************************************)
(* Bounds                                                                  *)
(***************************************************************************)
MaxFiles == 3

MaxYSpace == 2

(***************************************************************************)
(* Python string primitives                                                *)
(***************************************************************************)
WS == {" ", "\t"}

CommaWS == WS \cup {","}

Digits == {"0", "1", "2", "3", "4", "5", "6", "7", "8", "9"}

DigitVal == [c \in Digits |->
               CASE c = "0" -> 0 [] c = "1" -> 1 [] c = "2" -> 2 [] c = "3" -> 3
                 [] c = "4" -> 4 [] c = "5" -> 5 [] c = "6" -> 6 [] c = "7" -> 7
                 [] c = "8" -> 8 [] c = "9" -> 9]

None == [some |-> FALSE]

Some(v) == [some |-> TRUE, val |-> v]

RECURSIVE LStrip(_)
LStrip(s) == IF s # <<>> /\ Head(s) \in WS THEN LStrip(Tail(s)) ELSE s

RECURSIVE RStrip(_)
RStrip(s) ==
  IF s # <<>> /\ s[Len(s)] \in WS THEN RStrip(SubSeq(s, 1, Len(s) - 1)) ELSE s

\* str.strip()
Strip(s) == RStrip(LStrip(s))

\* str.startswith(prefix)
StartsWith(s, prefix) ==
  Len(s) >= Len(prefix) /\ SubSeq(s, 1, Len(prefix)) = prefix

\* re.split(r"[<seps>]+", s): a run of separators ends a token; a separator
\* at either end gives an empty token there, and "" splits to [""].
RECURSIVE ReSplit(_, _, _, _)
ReSplit(s, seps, cur, inSep) ==
  IF s = <<>> THEN <<cur>>
  ELSE IF Head(s) \in seps
       THEN IF inSep THEN ReSplit(Tail(s), seps, cur, TRUE)
            ELSE <<cur>> \o ReSplit(Tail(s), seps, <<>>, TRUE)
       ELSE ReSplit(Tail(s), seps, Append(cur, Head(s)), FALSE)

NonEmpty(t) == t # <<>>

\* str.split() with no separator: whitespace runs, no empty tokens.
WsSplit(s) == SelectSeq(ReSplit(s, WS, <<>>, FALSE), NonEmpty)

\* str.replace(sym, repl): every non-overlapping occurrence, left to right.
RECURSIVE Replace(_, _, _)
Replace(s, sym, repl) ==
  IF Len(s) < Len(sym) THEN s
  ELSE IF SubSeq(s, 1, Len(sym)) = sym
       THEN repl \o Replace(SubSeq(s, Len(sym) + 1, Len(s)), sym, repl)
       ELSE <<Head(s)>> \o Replace(Tail(s), sym, repl)

\* str.splitlines(): a final line terminator does not open another line.
RECURSIVE SplitLines(_, _)
SplitLines(s, cur) ==
  IF s = <<>> THEN (IF cur = <<>> THEN <<>> ELSE <<cur>>)
  ELSE IF Head(s) = "\n" THEN <<cur>> \o SplitLines(Tail(s), <<>>)
       ELSE SplitLines(Tail(s), Append(cur, Head(s)))

AllDigits(t) == t # <<>> /\ \A k \in 1..Len(t) : t[k] \in Digits

\* float(p) succeeds (otherwise ValueError)
IsFloat(t) ==
  IF t # <<>> /\ Head(t) \in {"-", "+"} THEN AllDigits(Tail(t)) ELSE AllDigits(t)

RECURSIVE DigitsVal(_)
DigitsVal(t) ==
  IF t = <<>> THEN 0
  ELSE 10 * DigitsVal(SubSeq(t, 1, Len(t) - 1)) + DigitVal[t[Len(t)]]

\* float(p)
Float(t) ==
  IF Head(t) = "-" THEN 0 - DigitsVal(Tail(t))
  ELSE IF Head(t) = "+" THEN DigitsVal(Tail(t))
  ELSE DigitsVal(t)

AllFloat(parts) == \A k \in 1..Len(parts) : IsFloat(parts[k])

(***************************************************************************)
(* The file system: the contents of the files the runs are given.          *)
(***************************************************************************)
\* a.gr: header with no blank inside a label, rows (0,1),(1,2),(2,3)
TextA ==
  <<"#", "L", " ", "r", "(", "$", "\\", "A", "A", "$", ")", " ", "G",
    "(", "$", "\\", "A", "A", "^", "{", "-", "2", "}", "$", ")", "\n",
    "0", " ", "1", "\n", "1", " ", "2", "\n", "2", " ", "3", "\n">>

\* b.gr: header with name and unit separated by a blank, rows (0,2),(2,4)
TextB ==
  <<"#", "L", " ", "r", " ", "(", "$", "\\", "A", "A", "$", ")", " ",
    "G", " ", "(", "$", "\\", "A", "A", "^", "{", "-", "2", "}", "$",
    ")", "\n", "0", " ", "2", "\n", "2", " ", "4", "\n">>

\* c.dat: a comment, labels X and Y separated by a comma, a text line,
\* three columns, a blank line and comments inside the data;
\* rows (0,2),(1,3),(3,5)
TextC ==
  <<"#", " ", "s", "c", "a", "n", " ", "7", "\n", "#", "L", " ", "X",
    ",", "Y", "\n", "c", "o", "u", "n", "t", "s", " ", "f", "o", "l",
    "l", "o", "w", "\n", " ", "0", " ", "2", " ", "9", "\n", "\n", "1",
    " ", "3", " ", "9", " ", " ", "#", " ", "m", "i", "d", "\n", "#",
    "L", " ", "a", "g", "a", "i", "n", "\n", "3", " ", "5", " ", "9",
    "\n">>

\* plain.txt: numeric rows only, no #L line
TextPlain ==
  <<"1", " ", "2", "\n", "3", " ", "4", "\n">>

\* words.txt: text only, no numeric row
TextWords ==
  <<"h", "e", "l", "l", "o", " ", "w", "o", "r", "l", "d", "\n", "#",
    "L", " ", "x", " ", "y", "\n", "n", "o", " ", "n", "u", "m", "b",
    "e", "r", "s", " ", "h", "e", "r", "e", "\n">>

\* one.gr: a single row of three columns
TextOneRow ==
  <<"#", "L", " ", "x", " ", "y", "\n", "1", " ", "2", " ", "3", "\n">>

\* col.gr: a single column
TextOneCol ==
  <<"#", "L", " ", "x", " ", "y", "\n", "1", "\n", "2", "\n">>

\* csv.gr: rows separated by commas
TextCsv ==
  <<"#", "L", " ", "x", " ", "y", "\n", "1", ",", "2", "\n", "3", ",",
    "4", "\n">>

\* ragged.gr: rows of unequal length
TextRagged ==
  <<"#", "L", " ", "x", " ", "y", "\n", "1", " ", "2", "\n", "3", " ",
    "4", " ", "5", "\n">>

Dir == "data"

PathA == <<Dir, "a.gr">>

PathB == <<Dir, "b.gr">>

PathC == <<Dir, "c.dat">>

PathPlain == <<Dir, "plain.txt">>

PathWords == <<Dir, "words.txt">>

PathOneRow == <<Dir, "one.gr">>

PathOneCol == <<Dir, "col.gr">>

PathCsv == <<Dir, "csv.gr">>

PathRagged == <<Dir, "ragged.gr">>

PathMissing == <<Dir, "missing.gr">>

Paths ==
  {PathA, PathB, PathC, PathPlain, PathWords, PathOneRow, PathOneCol, PathCsv,
   PathRagged, PathMissing}

\* Path.exists()
Exists(p) == p # PathMissing

\* Path.read_text()
ReadText(p) ==
  CASE p = PathA -> TextA
    [] p = PathB -> TextB
    [] p = PathC -> TextC
    [] p = PathPlain -> TextPlain
    [] p = PathWords -> TextWords
    [] p = PathOneRow -> TextOneRow
    [] p = PathOneCol -> TextOneCol
    [] p = PathCsv -> TextCsv
    [] p = PathRagged -> TextRagged

\* Path.name
Name(p) == p[Len(p)]

(***************************************************************************)
(* numpy.loadtxt on a list of lines, default delimiter and comment marker  *)
(***************************************************************************)
RECURSIVE StripComment(_)
StripComment(s) ==
  IF s = <<>> \/ Head(s) = "#" THEN <<>>
  ELSE <<Head(s)>> \o StripComment(Tail(s))

RowFloats(toks) == [k \in 1..Len(toks) |-> Float(toks[k])]

\* The rows loadtxt parses, or an error: a token that is no number, or rows
\* of unequal length.
LoadTxt(lines) ==
  LET toks == [k \in 1..Len(lines) |-> WsSplit(StripComment(lines[k]))]
      rows == SelectSeq(toks, NonEmpty)
  IN  IF \E k \in 1..Len(rows) : ~AllFloat(rows[k])
      THEN [ok |-> FALSE]
      ELSE IF \E k \in 1..Len(rows) : Len(rows[k]) # Len(rows[1])
      THEN [ok |-> FALSE]
      ELSE [ok |-> TRUE, rows |-> [k \in 1..Len(rows) |-> RowFloats(rows[k])]]

\* ndarray.ndim of loadtxt's result: one row, one column or no data is
\* squeezed to one dimension.
Ndim(rows) == IF Len(rows) <= 1 \/ Len(rows[1]) <= 1 THEN 1 ELSE 2

\* data[:, c]
Column(rows, c) == [k \in 1..Len(rows) |-> rows[k][c]]

(***************************************************************************)
(* _load_data                                                              *)
(***************************************************************************)
ErrNotFound == "FileNotFoundError: File not found"

ErrNoLabels == "ValueError: could not find #L labels or numeric data"

ErrParse == "ValueError: could not parse numeric data"

ErrColumns == "ValueError: expected at least two numeric columns"

LabelMarker == <<"#", "L">>

\* The scan for the #L line and the first numeric line after it
\* (line numbers from 1).
RECURSIVE FindLabelAndData(_, _, _)
FindLabelAndData(lines, i, label_line) ==
  IF i > Len(lines) THEN [label_line |-> label_line, data_start |-> None]
  ELSE LET stripped == Strip(lines[i]) IN
       IF StartsWith(stripped, LabelMarker)
       THEN FindLabelAndData(lines, i + 1,
                             Some(Strip(SubSeq(stripped, 3, Len(stripped)))))
       ELSE IF label_line.some /\ AllFloat(ReSplit(stripped, CommaWS, <<>>, FALSE))
       THEN [label_line |-> label_line, data_start |-> Some(i)]
       ELSE FindLabelAndData(lines, i + 1, label_line)

DefaultXLabel == <<"X">>

DefaultYLabel == <<"Y">>

Substitutions ==
  << <<  <<"(", "$", "\\", "A", "A", "$", ")">>,
         <<"(", "U+00C5", ")">> >>,
     <<  <<"(", "$", "\\", "A", "A", "^", "{", "-", "1", "}", "$", ")">>,
         <<"(", "U+00C5", "U+207B", "U+00B9", ")">> >>,
     <<  <<"(", "$", "\\", "A", "A", "^", "{", "-", "2", "}", "$", ")">>,
         <<"(", "U+00C5", "U+207B", "U+00B2", ")">> >>,
     <<  <<"(", "$", "\\", "A", "A", "^", "{", "-", "3", "}", "$", ")">>,
         <<"(", "U+00C5", "U+207B", "U+00B3", ")">> >> >>

\* CleanLabel with no substitution made
CleanLabelKept(label, k) == label

\* The "Clean labels" loop, from entry k of the table on.
RECURSIVE CleanLabel(_, _)
CleanLabel(label, k) ==
  IF k > Len(Substitutions) THEN label
  ELSE CleanLabel(Replace(label, Substitutions[k][1], Substitutions[k][2]), k + 1)

\* "Parse labels" and "Clean labels" of _load_data
ParseLabels(label_line) ==
  LET parts == ReSplit(label_line, CommaWS, <<>>, FALSE)
      xlabel == IF Len(parts) >= 1 THEN parts[1] ELSE DefaultXLabel
      ylabel == IF Len(parts) >= 2 THEN parts[2] ELSE DefaultYLabel
  IN  [xlabel |-> CleanLabel(xlabel, 1), ylabel |-> CleanLabel(ylabel, 1)]

\* raise <exception>(f"{filepath}: ..."); numpy's errors name no path
Raise(e, p) == [ok |-> FALSE, err |-> [msg |-> e, path |-> p]]

\* _load_data(filepath): the curve, or the exception raised
LoadData(filepath) ==
  IF ~Exists(filepath) THEN Raise(ErrNotFound, filepath)
  ELSE
    LET lines == SplitLines(ReadText(filepath), <<>>)
        found == FindLabelAndData(lines, 1, None)
    IN  IF ~found.label_line.some \/ ~found.data_start.some
        THEN Raise(ErrNoLabels, filepath)
        ELSE
          LET labels == ParseLabels(found.label_line.val)
              data == LoadTxt(SubSeq(lines, found.data_start.val, Len(lines)))
          IN  IF ~data.ok THEN Raise(ErrParse, filepath)
              ELSE IF Ndim(data.rows) = 1 \/ Len(data.rows[1]) < 2
              THEN Raise(ErrColumns, filepath)
              ELSE [ok |-> TRUE,
                    x |-> Column(data.rows, 1), y |-> Column(data.rows, 2),
                    xlabel |-> labels.xlabel, ylabel |-> labels.ylabel]

(***************************************************************************)
(* numpy arithmetic on the loaded columns.  Interpolated values are exact  *)
(* fractions [num, den] with den > 0.                                      *)
(***************************************************************************)
ErrBroadcast == "ValueError: operands could not be broadcast together"

ErrPlotShape == "ValueError: x and y must have same first dimension"

Abs(n) == IF n < 0 THEN 0 - n ELSE n

Rat(n, d) == [num |-> n, den |-> d]

RatEq(a, b) == a.num * b.den = b.num * a.den

\* numpy broadcasting of two one-dimensional arrays
Broadcastable(a, b) == Len(a) = Len(b) \/ Len(a) = 1 \/ Len(b) = 1

BroadcastLen(a, b) == IF Len(a) >= Len(b) THEN Len(a) ELSE Len(b)

Elem(a, k) == IF Len(a) = 1 THEN a[1] ELSE a[k]

\* numpy.isclose(a, b) with rtol = 1e-05, atol = 1e-08:
\* |a - b| <= atol + rtol * |b|, both sides scaled by 10^8
IsClose(a, b) == 100000000 * Abs(a - b) <= 1 + 1000 * Abs(b)

\* numpy.allclose(x1, x2); raises when the shapes do not broadcast
AllClose(x1, x2) ==
  IF ~Broadcastable(x1, x2) THEN Raise(ErrBroadcast, <<>>)
  ELSE [ok |-> TRUE,
        val |-> \A k \in 1..BroadcastLen(x1, x2) : IsClose(Elem(x1, k), Elem(x2, k))]

\* numpy.interp(x, xp, fp) at one point x, xp increasing: the end values
\* outside [xp[0], xp[-1]], linear between neighbours inside.
InterpAt(x, xp, fp) ==
  LET n == Len(xp) IN
  IF x < xp[1] THEN Rat(fp[1], 1)
  ELSE IF x >= xp[n] THEN Rat(fp[n], 1)
  ELSE LET m == CHOOSE m \in 1..(n - 1) : xp[m] <= x /\ x < xp[m + 1]
           den == xp[m + 1] - xp[m]
       IN  Rat(fp[m] * den + (x - xp[m]) * (fp[m + 1] - fp[m]), den)

\* numpy.interp(x1, x2, y2)
Interp(x1, x2, y2) == [k \in 1..Len(x1) |-> InterpAt(x1[k], x2, y2)]

AsRat(y) == [k \in 1..Len(y) |-> Rat(y[k], 1)]

\* y1 - y2, y1 a loaded column and y2 a column of fractions
Subtract(y1, y2) ==
  [k \in 1..BroadcastLen(y1, y2) |->
     Rat(Elem(y1, k) * Elem(y2, k).den - Elem(y2, k).num, Elem(y2, k).den)]

\* diff + offset
AddOffset(diff, offset) ==
  [k \in 1..Len(diff) |-> Rat(diff[k].num + offset * diff[k].den, diff[k].den)]

\* The difference of two loaded curves on the first curve's grid, as
\* plot_diff and plot_diff_matrix both compute it; raises as allclose does.
Difference(c1, c2) ==
  LET close == AllClose(c1.x, c2.x) IN
  IF ~close.ok THEN close
  ELSE LET y2 == IF ~close.val THEN Interp(c1.x, c2.x, c2.y) ELSE AsRat(c2.y)
       IN  [ok |-> TRUE, diff |-> Subtract(c1.y, y2)]

\* f"{files[i].name} - {files[j].name}"
DiffLabel(f1, f2) == Name(f1) \o " - " \o Name(f2)

\* f"Δ{ylabel}", the Greek capital delta being U+0394
DeltaLabel(ylabel) == <<"U+0394">> \o ylabel

(***************************************************************************)
(* What a run hands to its collaborators, in order: the lines given to     *)
(* plt.plot and plt.axhline and the messages printed.                      *)
(***************************************************************************)
PlotCall(x, y, label) == [type |-> "plot", x |-> x, y |-> y, label |-> label]

AxhlineCall(y) == [type |-> "axhline", y |-> y]

\* print(f"[Error] {f}: {e}") and print(f"[Error] {f1} vs {f2}: {e}")
PrintError(about, e) == [type |-> "print", about |-> about, err |-> e]

ErrArity == "--diff requires exactly two files."

IsPlot(ev) == ev.type = "plot"

IsPrint(ev) == ev.type = "print"

IsAxhline(ev) == ev.type = "axhline"

\* plt.plot(x, y, ...) accepts x and y of the same length only
PlotAccepts(x, y) == Len(x) = Len(y)

\* WaterfallOffset with the positions counted from 1
WaterfallOffsetFromOne(i, ys) == (i + 1) * ys

\* y + i * yspace
WaterfallOffset(i, ys) == i * ys

Shift(y, d) == [k \in 1..Len(y) |-> y[k] + d]

VARIABLES
  Curves,        \* the files on disk as _load_data reads them: Curves[p] is
                 \* what _load_data(p) returns or raises; no operation
                 \* writes a file
  legend_right,  \* Plotter.legend_right
  pc,            \* "idle", "loop" while a mode's loop runs, "done" on return
  mode,          \* the plotting method called, "none" before the call
  files,         \* the argument files
  yspace,        \* the argument yspace
  i, j,          \* loop indices (from 0, as in the source)
  xlabel, ylabel,\* the locals xlabel, ylabel
  offset,        \* the local offset of plot_diff_matrix
  reads,         \* the paths _load_data was called with, in order
  out,           \* plot, axhline and print calls, in order
  figure,        \* plt.figure was called
  axes,          \* the labels given to _configure_plot, if it was called
  legend,        \* "none", or where the legend was placed
  shown          \* plt.show was called

vars ==
  <<Curves, legend_right, pc, mode, files, yspace, i, j, xlabel, ylabel, offset, reads,
    out, figure, axes, legend, shown>>

FileLists == UNION {[1..n -> Paths] : n \in 0..MaxFiles}

YSpaces == 1..MaxYSpace

\* Plotter.__init__
Init ==
  /\ Curves = [p \in Paths |-> LoadData(p)]
  /\ legend_right \in BOOLEAN
  /\ pc = "idle"
  /\ mode = "none"
  /\ files = <<>>
  /\ yspace = 1
  /\ i = 0
  /\ j = 0
  /\ xlabel = DefaultXLabel
  /\ ylabel = DefaultYLabel
  /\ offset = 0
  /\ reads = <<>>
  /\ out = <<>>
  /\ figure = FALSE
  /\ axes = None
  /\ legend = "none"
  /\ shown = FALSE

\* _maybe_show_legend
MaybeShowLegend == IF legend_right THEN "right" ELSE "inside"

\* self._configure_plot(xl, yl); self._maybe_show_legend(); plt.show()
ConfigureAndShow(xl, yl) ==
  /\ axes' = Some([xlabel |-> xl, ylabel |-> yl])
  /\ legend' = MaybeShowLegend
  /\ shown' = TRUE

(***************************************************************************)
(* plot_overlaid                                                           *)
(***************************************************************************)
PlotOverlaid ==
  /\ pc = "idle"
  /\ pc' = "loop"
  /\ mode' = "overlay"
  /\ \E fs \in FileLists : files' = fs
  /\ figure' = TRUE
  /\ xlabel' = DefaultXLabel
  /\ ylabel' = DefaultYLabel
  /\ i' = 0
  /\ UNCHANGED <<Curves, legend_right, yspace, j, offset, reads, out, axes, legend, shown>>

\* OverlayBody with a failed load skipped without a message
OverlayBodySilent(f, c) ==
  /\ reads' = Append(reads, f)
  /\ IF c.ok
     THEN /\ xlabel' = c.xlabel
          /\ ylabel' = c.ylabel
          /\ out' = Append(out, PlotCall(c.x, c.y, Name(f)))
     ELSE UNCHANGED <<out, xlabel, ylabel>>

\* The try block of the loop body for file f, c being what _load_data(f)
\* returns or raises
OverlayBody(f, c) ==
  /\ reads' = Append(reads, f)
  /\ IF c.ok
     THEN /\ xlabel' = c.xlabel
          /\ ylabel' = c.ylabel
          /\ out' = Append(out, PlotCall(c.x, c.y, Name(f)))
     ELSE /\ out' = Append(out, PrintError(<<f>>, c.err))
          /\ UNCHANGED <<xlabel, ylabel>>

\* One pass of the loop, for files[i]
OverlayStep ==
  /\ pc = "loop"
  /\ mode = "overlay"
  /\ i < Len(files)
  /\ OverlayBody(files[i + 1], Curves[files[i + 1]])
  /\ i' = i + 1
  /\ UNCHANGED <<Curves, legend_right, pc, mode, files, yspace, j, offset, figure, axes, legend, shown>>

OverlayShow ==
  /\ pc = "loop"
  /\ mode = "overlay"
  /\ i = Len(files)
  /\ ConfigureAndShow(xlabel, ylabel)
  /\ pc' = "done"
  /\ UNCHANGED <<Curves, legend_right, mode, files, yspace, i, j, xlabel, ylabel, offset, reads, out, figure>>

(***************************************************************************)
(* plot_waterfall                                                          *)
(***************************************************************************)
PlotWaterfall ==
  /\ pc = "idle"
  /\ pc' = "loop"
  /\ mode' = "waterfall"
  /\ \E fs \in FileLists : files' = fs
  /\ \E ys \in YSpaces : yspace' = ys
  /\ figure' = TRUE
  /\ xlabel' = DefaultXLabel
  /\ ylabel' = DefaultYLabel
  /\ i' = 0
  /\ UNCHANGED <<Curves, legend_right, j, offset, reads, out, axes, legend, shown>>

\* WaterfallBody with a failed load putting the default labels back
WaterfallBodyResetsLabels(f, c) ==
  /\ reads' = Append(reads, f)
  /\ IF c.ok
     THEN /\ xlabel' = c.xlabel
          /\ ylabel' = c.ylabel
          /\ out' = Append(out, PlotCall(c.x, Shift(c.y, WaterfallOffset(i, yspace)),
                                         Name(f)))
     ELSE /\ out' = Append(out, PrintError(<<f>>, c.err))
          /\ xlabel' = DefaultXLabel
          /\ ylabel' = DefaultYLabel

\* The try block of the loop body for file f, c being what _load_data(f)
\* returns or raises
WaterfallBody(f, c) ==
  /\ reads' = Append(reads, f)
  /\ IF c.ok
     THEN /\ xlabel' = c.xlabel
          /\ ylabel' = c.ylabel
          /\ out' = Append(out, PlotCall(c.x, Shift(c.y, WaterfallOffset(i, yspace)),
                                         Name(f)))
     ELSE /\ out' = Append(out, PrintError(<<f>>, c.err))
          /\ UNCHANGED <<xlabel, ylabel>>

\* One pass of the loop, for files[i]
WaterfallStep ==
  /\ pc = "loop"
  /\ mode = "waterfall"
  /\ i < Len(files)
  /\ WaterfallBody(files[i + 1], Curves[files[i + 1]])
  /\ i' = i + 1
  /\ UNCHANGED <<Curves, legend_right, pc, mode, files, yspace, j, offset, figure, axes, legend, shown>>

WaterfallShow ==
  /\ pc = "loop"
  /\ mode = "waterfall"
  /\ i = Len(files)
  /\ ConfigureAndShow(xlabel, ylabel)
  /\ pc' = "done"
  /\ UNCHANGED <<Curves, legend_right, mode, files, yspace, i, j, xlabel, ylabel, offset, reads, out, figure>>

(***************************************************************************)
(* plot_diff_matrix                                                        *)
(***************************************************************************)
PlotDiffMatrix ==
  /\ pc = "idle"
  /\ pc' = "loop"
  /\ mode' = "diffmatrix"
  /\ \E fs \in FileLists : files' = fs
  /\ \E ys \in YSpaces : yspace' = ys
  /\ figure' = TRUE
  /\ xlabel' = DefaultXLabel
  /\ ylabel' = DefaultYLabel
  /\ offset' = 0
  /\ i' = 0
  /\ j' = 1
  /\ UNCHANGED <<Curves, legend_right, reads, out, axes, legend, shown>>

\* The try block of the loop body once both curves are loaded, d being their
\* difference or the exception raised on the way to it
DiffPairOutcome(f1, f2, c1, d, off) ==
  IF ~d.ok
  THEN [reads |-> <<f1, f2>>, labels |-> Some(c1), plotted |-> FALSE,
        calls |-> <<PrintError(<<f1, f2>>, d.err)>>]
  ELSE IF ~PlotAccepts(c1.x, d.diff)
  THEN [reads |-> <<f1, f2>>, labels |-> Some(c1), plotted |-> FALSE,
        calls |-> <<PrintError(<<f1, f2>>, Raise(ErrPlotShape, <<>>).err)>>]
  ELSE [reads |-> <<f1, f2>>, labels |-> Some(c1), plotted |-> TRUE,
        calls |-> <<PlotCall(c1.x, AddOffset(d.diff, off), DiffLabel(f1, f2)),
                    AxhlineCall(off)>>]

\* The try block of the loop body for the pair (f1, f2) at the current
\* offset: the calls of _load_data, the calls that reach the collaborators,
\* the labels assigned if any, and whether the block ran to its end.
\* c1, c2 are what _load_data(f1), _load_data(f2) return or raise.
PairOutcome(f1, f2, c1, c2, off) ==
  IF ~c1.ok
  THEN [reads |-> <<f1>>, labels |-> None, plotted |-> FALSE,
        calls |-> <<PrintError(<<f1, f2>>, c1.err)>>]
  ELSE IF ~c2.ok
  THEN [reads |-> <<f1, f2>>, labels |-> Some(c1), plotted |-> FALSE,
        calls |-> <<PrintError(<<f1, f2>>, c2.err)>>]
  ELSE DiffPairOutcome(f1, f2, c1, Difference(c1, c2), off)

\* NextOffset as the assignment offset = yspace
NextOffsetAssigned(off, ys) == ys

\* offset += yspace
NextOffset(off, ys) == off + ys

\* The pair the nested for loops visit after (a, b), n files
NextPair(a, b, n) == IF b + 1 < n THEN <<a, b + 1>> ELSE <<a + 1, a + 2>>

\* The nested loops have a pair left to visit
PairsLeft == i < Len(files) - 1

\* DiffMatrixBody with the offset advancing on a skipped pair too
DiffMatrixBodyAlwaysAdvances(r) ==
  /\ reads' = reads \o r.reads
  /\ out' = out \o r.calls
  /\ xlabel' = IF r.labels.some THEN r.labels.val.xlabel ELSE xlabel
  /\ ylabel' = IF r.labels.some THEN r.labels.val.ylabel ELSE ylabel
  /\ offset' = NextOffset(offset, yspace)

\* The effect of one pass of the loop body with outcome r
DiffMatrixBody(r) ==
  /\ reads' = reads \o r.reads
  /\ out' = out \o r.calls
  /\ xlabel' = IF r.labels.some THEN r.labels.val.xlabel ELSE xlabel
  /\ ylabel' = IF r.labels.some THEN r.labels.val.ylabel ELSE ylabel
  /\ offset' = IF r.plotted THEN NextOffset(offset, yspace) ELSE offset

DiffMatrixStep ==
  /\ pc = "loop"
  /\ mode = "diffmatrix"
  /\ PairsLeft
  /\ DiffMatrixBody(PairOutcome(files[i + 1], files[j + 1],
                                Curves[files[i + 1]], Curves[files[j + 1]], offset))
  /\ i' = NextPair(i, j, Len(files))[1]
  /\ j' = NextPair(i, j, Len(files))[2]
  /\ UNCHANGED <<Curves, legend_right, pc, mode, files, yspace, figure, axes, legend, shown>>

DiffMatrixShow ==
  /\ pc = "loop"
  /\ mode = "diffmatrix"
  /\ ~PairsLeft
  /\ ConfigureAndShow(xlabel, DeltaLabel(ylabel))
  /\ pc' = "done"
  /\ UNCHANGED <<Curves, legend_right, mode, files, yspace, i, j, xlabel, ylabel, offset, reads, out, figure>>

(***************************************************************************)
(* plot_diff                                                               *)
(***************************************************************************)
\* WrongArity as len(files) < 2
WrongArityTooFew(fs) == Len(fs) < 2

\* len(files) != 2
WrongArity(fs) == Len(fs) # 2

\* plot_diff once both curves are loaded, d being their difference or the
\* exception raised on the way to it
DiffPlotOutcome(fs, c1, d) ==
  IF ~d.ok
  THEN [reads |-> fs, labels |-> Some(c1), figure |-> FALSE, shown |-> FALSE,
        calls |-> <<PrintError(<<>>, d.err)>>]
  ELSE IF ~PlotAccepts(c1.x, d.diff)
  THEN [reads |-> fs, labels |-> Some(c1), figure |-> TRUE, shown |-> FALSE,
        calls |-> <<PrintError(<<>>, Raise(ErrPlotShape, <<>>).err)>>]
  ELSE [reads |-> fs, labels |-> Some(c1), figure |-> TRUE, shown |-> TRUE,
        calls |-> <<PlotCall(c1.x, d.diff, DiffLabel(fs[1], fs[2]))>>]

\* The try block of plot_diff, c1 and c2 being what _load_data returns or
\* raises for the two files
DiffTryOutcome(fs, c1, c2) ==
  IF ~c1.ok
  THEN [reads |-> <<fs[1]>>, labels |-> None, figure |-> FALSE, shown |-> FALSE,
        calls |-> <<PrintError(<<>>, c1.err)>>]
  ELSE IF ~c2.ok
  THEN [reads |-> fs, labels |-> Some(c1), figure |-> FALSE, shown |-> FALSE,
        calls |-> <<PrintError(<<>>, c2.err)>>]
  ELSE DiffPlotOutcome(fs, c1, Difference(c1, c2))

\* plot_diff(fs) from its first line to its return
DiffOutcome(fs) ==
  IF WrongArity(fs)
  THEN [reads |-> <<>>, labels |-> None, figure |-> FALSE, shown |-> FALSE,
        calls |-> <<PrintError(<<>>, Raise(ErrArity, <<>>).err)>>]
  ELSE DiffTryOutcome(fs, Curves[fs[1]], Curves[fs[2]])

\* The effect of plot_diff with outcome r
DiffBody(r) ==
  /\ reads' = r.reads
  /\ out' = r.calls
  /\ figure' = r.figure
  /\ xlabel' = IF r.labels.some THEN r.labels.val.xlabel ELSE xlabel
  /\ ylabel' = IF r.labels.some THEN r.labels.val.ylabel ELSE ylabel
  /\ IF r.shown
     THEN ConfigureAndShow(r.labels.val.xlabel, DeltaLabel(r.labels.val.ylabel))
     ELSE UNCHANGED <<axes, legend, shown>>

PlotDiff ==
  /\ pc = "idle"
  /\ pc' = "done"
  /\ mode' = "diff"
  /\ \E fs \in FileLists : /\ files' = fs
                            /\ DiffBody(DiffOutcome(fs))
  /\ UNCHANGED <<Curves, legend_right, yspace, i, j, offset>>

Next ==
  \/ PlotOverlaid
  \/ OverlayStep
  \/ OverlayShow
  \/ PlotWaterfall
  \/ WaterfallStep
  \/ WaterfallShow
  \/ PlotDiffMatrix
  \/ DiffMatrixStep
  \/ DiffMatrixShow
  \/ PlotDiff

Spec == Init /\ [][Next]_vars

(***************************************************************************)
(* Vocabulary of the properties                                            *)
(***************************************************************************)
Plots == SelectSeq(out, IsPlot)

Prints == SelectSeq(out, IsPrint)

Axhlines == SelectSeq(out, IsAxhline)

\* One entry per visited pair of plot_diff_matrix: its plot or its message
PairEvents == SelectSeq(out, LAMBDA ev : IsPlot(ev) \/ IsPrint(ev))

Loads(f) == Curves[f].ok

\* The positions (from 1) among the first n input files of those that load
OkPositions(n) == SelectSeq([k \in 1..n |-> k], LAMBDA k : Loads(files[k]))

Last(s) == s[Len(s)]

InLoopMode(m) == mode = m /\ pc \in {"loop", "done"}

Finished(m) == mode = m /\ pc = "done"

\* The lines of an existing file
LinesOf(p) == SplitLines(ReadText(p), <<>>)

\* Number of pairs (c, d), c < d < n, that the nested loops visit before (a, b)
Rank(a, b, n) ==
  Cardinality({q \in (0..(n - 1)) \X (0..(n - 1)) :
                 /\ q[1] < q[2]
                 /\ (q[1] < a \/ (q[1] = a /\ q[2] < b))})

PairCount(n) == (n * (n - 1)) \div 2

\* The k-th pair (k from 1) in the order (0,1),(0,2),...,(0,n-1),(1,2),...
PairAt(k, n) ==
  CHOOSE q \in (0..(n - 1)) \X (0..(n - 1)) :
    q[1] < q[2] /\ Rank(q[1], q[2], n) = k - 1

\* y1[k] minus the piecewise-linear interpolation of curve c2 at c1.x[k]
ExpectedDiffAt(c1, c2, k) ==
  LET v == InterpAt(c1.x[k], c2.x, c2.y)
  IN  Rat(c1.y[k] * v.den - v.num, v.den)

\* Every file loads and every pair of grids has the same number of points
AllCompatible ==
  /\ \A k \in 1..Len(files) : Loads(files[k])
  /\ \A a, b \in 1..Len(files) : Len(Curves[files[a]].x) = Len(Curves[files[b]].x)

(***************************************************************************)
(* C1                                                                      *)
(***************************************************************************)
\* C1 as stated: in a waterfall the k-th successfully loaded curve (from 0,
\* counted among the successful loads only) is plotted with offset
\* k * yspace; a failed file takes no offset slot.
C1_Compact ==
  InLoopMode("waterfall") =>
    LET ok == OkPositions(i)
        plots == Plots
    IN  /\ Len(plots) = Len(ok)
        /\ \A k \in 1..Len(plots) :
             plots[k].y = Shift(Curves[files[ok[k]]].y, (k - 1) * yspace)

\* C1 (amended): in a waterfall the curve loaded from the file at input
\* position p (from 0, counted among all input files) is plotted with offset
\* p * yspace, whatever subset of the files fails to load; a failed file
\* takes its offset slot with it.
C1_OffsetByInputPosition ==
  InLoopMode("waterfall") =>
    LET ok == OkPositions(i)
        plots == Plots
    IN  /\ Len(plots) = Len(ok)
        /\ \A k \in 1..Len(plots) :
             /\ plots[k].x = Curves[files[ok[k]]].x
             /\ plots[k].label = Name(files[ok[k]])
             /\ plots[k].y = Shift(Curves[files[ok[k]]].y, (ok[k] - 1) * yspace)

\* A finished waterfall whose first file failed and whose second loaded
C1_Witness ==
  /\ Finished("waterfall")
  /\ Len(files) >= 2
  /\ ~Loads(files[1])
  /\ Loads(files[2])
  /\ Len(Plots) >= 1

(***************************************************************************)
(* C2                                                                      *)
(***************************************************************************)
\* C2 as stated: a diff matrix over N files that all load, on compatible
\* grids, plots N*(N-1)/2 series, and the offsets applied to them in
\* iteration order are yspace, 2*yspace, 3*yspace, ...
C2_OffsetsFromYspace ==
  (Finished("diffmatrix") /\ AllCompatible) =>
    /\ Len(Plots) = PairCount(Len(files))
    /\ Len(Axhlines) = Len(Plots)
    /\ \A k \in 1..Len(Axhlines) : Axhlines[k].y = k * yspace

\* C2 (amended): a diff matrix over N files that all load, on compatible
\* grids, plots N*(N-1)/2 series, and the offsets applied to them in
\* iteration order are 0, yspace, 2*yspace, ...: the k-th series (from 1) is
\* the pair's difference raised by (k-1)*yspace, strictly increasing for
\* yspace > 0.
C2_OffsetsFromZero ==
  (Finished("diffmatrix") /\ AllCompatible) =>
    LET plots == Plots
        lines == Axhlines
        n == Len(files)
    IN  /\ Len(plots) = PairCount(n)
        /\ Len(lines) = Len(plots)
        /\ \A k \in 1..Len(lines) : lines[k].y = (k - 1) * yspace
        /\ \A k \in 1..Len(plots) :
             LET a == files[PairAt(k, n)[1] + 1]
                 b == files[PairAt(k, n)[2] + 1]
             IN  \A p \in 1..Len(plots[k].y) :
                   LET d == ExpectedDiffAt(Curves[a], Curves[b], p)
                   IN  RatEq(plots[k].y[p],
                             Rat(d.num + (k - 1) * yspace * d.den, d.den))
        /\ \A k \in 1..(Len(lines) - 1) : yspace > 0 => lines[k].y < lines[k + 1].y

\* A finished diff matrix over three loadable files with three series
C2_Witness ==
  /\ Finished("diffmatrix")
  /\ Len(files) = 3
  /\ AllCompatible
  /\ Len(Plots) = 3

(***************************************************************************)
(* C3                                                                      *)
(***************************************************************************)
\* C3: a direct diff of two loaded curves whose x-grids differ, grids of a
\* different number of points included, plots one series on the first
\* curve's grid, its value at x1[k] being y1[k] minus the piecewise-linear
\* interpolation of curve 2 at x1[k]; for a.gr = [(0,1),(1,2),(2,3)] and
\* b.gr = [(0,2),(2,4)] the value at x = 1 is -1.
C3_DiffOnFirstGrid ==
  (Finished("diff") /\ Len(files) = 2 /\ Loads(files[1]) /\ Loads(files[2])
     /\ Curves[files[1]].x # Curves[files[2]].x) =>
    /\ Len(Plots) = 1
    /\ Plots[1].x = Curves[files[1]].x
    /\ Len(Plots[1].y) = Len(Plots[1].x)
    /\ \A k \in 1..Len(Plots[1].y) :
         RatEq(Plots[1].y[k], ExpectedDiffAt(Curves[files[1]], Curves[files[2]], k))
    /\ files = <<PathA, PathB>> => RatEq(Plots[1].y[2], Rat(0 - 1, 1))

(***************************************************************************)
(* C4                                                                      *)
(***************************************************************************)
\* The file has no #L line and every line of it is a row of two or more
\* whitespace-separated numbers
PlainNumeric(p) ==
  /\ Exists(p)
  /\ LinesOf(p) # <<>>
  /\ \A k \in 1..Len(LinesOf(p)) :
       /\ ~StartsWith(Strip(LinesOf(p)[k]), LabelMarker)
       /\ Len(WsSplit(LinesOf(p)[k])) >= 2
       /\ AllFloat(WsSplit(LinesOf(p)[k]))

\* C4: a file with no #L line that consists of whitespace-separated numeric
\* rows of two or more columns loads: x and y are its first two columns and
\* the labels are the defaults "X" and "Y".
C4_PlainNumericLoads ==
  (InLoopMode("overlay") /\ i >= 1 /\ PlainNumeric(files[i])) =>
    /\ IsPlot(out[i])
    /\ out[i].x = [k \in 1..Len(LinesOf(files[i])) |->
                     Float(WsSplit(LinesOf(files[i])[k])[1])]
    /\ out[i].y = [k \in 1..Len(LinesOf(files[i])) |->
                     Float(WsSplit(LinesOf(files[i])[k])[2])]
    /\ xlabel = DefaultXLabel
    /\ ylabel = DefaultYLabel

(***************************************************************************)
(* C5                                                                      *)
(***************************************************************************)
\* C5: a direct diff given a number of files other than two reports the
\* arity error and nothing else: no file is loaded, no series is plotted,
\* no figure is opened or shown.
C5_ArityError ==
  (mode = "diff" /\ Len(files) # 2) =>
    /\ pc = "done"
    /\ reads = <<>>
    /\ out = <<PrintError(<<>>, [msg |-> ErrArity, path |-> <<>>])>>
    /\ ~figure
    /\ axes = None
    /\ ~shown

\* A direct diff that was given three files
C5_Witness == mode = "diff" /\ Len(files) = 3 /\ Len(out) = 1

(***************************************************************************)
(* C6                                                                      *)
(***************************************************************************)
\* C6: an overlay never stops on a file that is missing, unparsable or short
\* of columns: every input file gets, in input order, either one series
\* labelled with its name or one error message naming it, the run goes on
\* to the end of the list and shows the figure; an overlay over a good and
\* a bad file plots exactly one series.
C6_OverlayRecovers ==
  InLoopMode("overlay") =>
    /\ Len(out) = i
    /\ i <= Len(files)
    /\ \A k \in 1..i :
         IF Loads(files[k])
         THEN out[k] = PlotCall(Curves[files[k]].x, Curves[files[k]].y, Name(files[k]))
         ELSE /\ IsPrint(out[k])
              /\ out[k].about = <<files[k]>>
              /\ out[k].err = Curves[files[k]].err
    /\ Len(Plots) = Len(OkPositions(i))
    /\ pc = "done" => (i = Len(files) /\ shown)

\* A finished overlay over a.gr and the text-only words.txt, one series
C6_Witness ==
  /\ Finished("overlay")
  /\ files = <<PathA, PathWords>>
  /\ Len(Plots) = 1
  /\ Len(Prints) = 1

(***************************************************************************)
(* C7                                                                      *)
(***************************************************************************)
\* r ($\AA$) G ($\AA^{-2}$)
SpacedHeader ==
  <<"r", " ", "(", "$", "\\", "A", "A", "$", ")", " ",
    "G", " ", "(", "$", "\\", "A", "A", "^", "{", "-", "2", "}", "$", ")">>

\* r($\AA$) G($\AA^{-2}$)
UnspacedHeader ==
  <<"r", "(", "$", "\\", "A", "A", "$", ")", " ",
    "G", "(", "$", "\\", "A", "A", "^", "{", "-", "2", "}", "$", ")">>

\* The remainder of the #L line of file p is h
HasHeader(p, h) ==
  /\ Exists(p)
  /\ FindLabelAndData(LinesOf(p), 1, None).label_line = Some(h)

\* The overlay has just loaded a file whose header remainder is h
JustLoaded(h) ==
  /\ InLoopMode("overlay")
  /\ i >= 1
  /\ Loads(files[i])
  /\ HasHeader(files[i], h)

\* C7 as stated: the header remainder "r ($\AA$) G ($\AA^{-2}$)" parses to
\* xlabel "r (A-ring)" and ylabel "G (A-ring, superscript -2)".
C7_NameWithUnit ==
  JustLoaded(SpacedHeader) =>
    /\ xlabel = <<"r", " ", "(", "U+00C5", ")">>
    /\ ylabel = <<"G", " ", "(", "U+00C5", "U+207B", "U+00B2", ")">>

\* C7 (amended): the header remainder "r ($\AA$) G ($\AA^{-2}$)" parses to
\* xlabel "r" and ylabel "(A-ring)", its first two tokens with the unit
\* markup substituted; a label keeps its name with its unit when no blank
\* separates them: "r($\AA$) G($\AA^{-2}$)" parses to "r(A-ring)" and
\* "G(A-ring, superscript -2)".
C7_FirstTwoTokens ==
  /\ JustLoaded(SpacedHeader) =>
       /\ xlabel = <<"r">>
       /\ ylabel = <<"(", "U+00C5", ")">>
  /\ JustLoaded(UnspacedHeader) =>
       /\ xlabel = <<"r", "(", "U+00C5", ")">>
       /\ ylabel = <<"G", "(", "U+00C5", "U+207B", "U+00B2", ")">>

\* A finished overlay whose last file carries the spaced header
C7_Witness ==
  /\ Finished("overlay")
  /\ JustLoaded(SpacedHeader)
  /\ axes = Some([xlabel |-> xlabel, ylabel |-> ylabel])

(***************************************************************************)
(* C8                                                                      *)
(***************************************************************************)
\* The rows of file p from its first numeric line after the #L line on
DataRows(p) ==
  LoadTxt(SubSeq(LinesOf(p),
                 FindLabelAndData(LinesOf(p), 1, None).data_start.val,
                 Len(LinesOf(p)))).rows

\* File p has a #L line, a numeric line after it, and from there to its end
\* a rectangular numeric matrix of at least one row and two columns
LabeledMatrix(p) ==
  /\ Exists(p)
  /\ FindLabelAndData(LinesOf(p), 1, None).label_line.some
  /\ FindLabelAndData(LinesOf(p), 1, None).data_start.some
  /\ LoadTxt(SubSeq(LinesOf(p),
                    FindLabelAndData(LinesOf(p), 1, None).data_start.val,
                    Len(LinesOf(p)))).ok
  /\ Len(DataRows(p)) >= 1
  /\ Len(DataRows(p)[1]) >= 2

\* C8: a file whose #L line is followed by a numeric line, with a
\* rectangular numeric matrix of R >= 1 rows and C >= 2 columns from there
\* to the end, loads, and x and y are its first and second column, both of
\* length R (R = 1 and C > 2 included).
C8_LabeledMatrixLoads ==
  (InLoopMode("overlay") /\ i >= 1 /\ LabeledMatrix(files[i])) =>
    /\ IsPlot(out[i])
    /\ out[i].x = Column(DataRows(files[i]), 1)
    /\ out[i].y = Column(DataRows(files[i]), 2)
    /\ Len(out[i].x) = Len(DataRows(files[i]))
    /\ Len(out[i].y) = Len(DataRows(files[i]))

(***************************************************************************)
(* C9                                                                      *)
(***************************************************************************)
\* C9: a diff matrix visits every pair (a, b), a < b, once, in the order
\* (0,1),(0,2),...,(0,n-1),(1,2),...; a pair with a file that fails to load
\* is reported and skipped, later pairs are still visited and the offset
\* stays; at every point the offset of the next plotted pair is yspace times
\* the number of pairs plotted so far, and every plotted series is labelled
\* "<name_a> - <name_b>".
C9_PairsInOrder ==
  InLoopMode("diffmatrix") =>
    LET events == PairEvents
        plots == Plots
        lines == Axhlines
        n == Len(files)
    IN  /\ Len(events) = IF PairsLeft THEN Rank(i, j, n) ELSE PairCount(n)
        /\ PairsLeft => (i < j /\ j < n)
        /\ pc = "done" => ~PairsLeft
        /\ offset = yspace * Len(plots)
        /\ Len(lines) = Len(plots)
        /\ \A k \in 1..Len(lines) : lines[k].y = yspace * (k - 1)
        /\ \A k \in 1..Len(events) :
             LET a == files[PairAt(k, n)[1] + 1]
                 b == files[PairAt(k, n)[2] + 1]
                 before == Cardinality({q \in 1..(k - 1) : IsPlot(events[q])})
             IN  /\ IF IsPlot(events[k])
                    THEN /\ Loads(a)
                         /\ Loads(b)
                         /\ events[k].label = Name(a) \o " - " \o Name(b)
                         /\ events[k].x = Curves[a].x
                         /\ \A p \in 1..Len(events[k].y) :
                              LET d == ExpectedDiffAt(Curves[a], Curves[b], p)
                              IN  RatEq(events[k].y[p],
                                        Rat(d.num + before * yspace * d.den, d.den))
                    ELSE events[k].about = <<a, b>>
                 /\ (~Loads(a) \/ ~Loads(b)) => IsPrint(events[k])

\* A finished diff matrix over three files, the first of which fails to
\* load: two pairs skipped, then one plotted at offset 0
C9_Witness ==
  /\ Finished("diffmatrix")
  /\ Len(files) = 3
  /\ ~Loads(files[1])
  /\ Len(Prints) = 2
  /\ Len(Plots) = 1
  /\ IsPrint(out[1])
  /\ offset = yspace

(***************************************************************************)
(* C10                                                                     *)
(***************************************************************************)
\* The labels of the last of the first n input files that loads, the
\* defaults if none does
LabelsAfter(n) ==
  IF OkPositions(n) = <<>>
  THEN [xlabel |-> DefaultXLabel, ylabel |-> DefaultYLabel]
  ELSE [xlabel |-> Curves[files[Last(OkPositions(n))]].xlabel,
        ylabel |-> Curves[files[Last(OkPositions(n))]].ylabel]

\* C10 (amended): in overlay and waterfall a failed load leaves (xlabel,
\* ylabel) as they were, so the axis labels handed to the renderer are those
\* of the last input file that loaded, and the defaults "X", "Y" when no
\* file loaded (a loaded file may carry the labels "X", "Y" itself).
C10_LabelsOfLastLoaded ==
  (InLoopMode("overlay") \/ InLoopMode("waterfall")) =>
    /\ xlabel = LabelsAfter(i).xlabel
    /\ ylabel = LabelsAfter(i).ylabel
    /\ pc = "done" =>
         /\ i = Len(files)
         /\ axes = Some(LabelsAfter(Len(files)))
         /\ OkPositions(Len(files)) = <<>> =>
              axes = Some([xlabel |-> DefaultXLabel, ylabel |-> DefaultYLabel])

\* C10 as stated: as above, and the axis labels are the defaults exactly
\* when no file loaded.
C10_DefaultsExactlyWhenNoneLoaded ==
  ((InLoopMode("overlay") \/ InLoopMode("waterfall")) /\ pc = "done") =>
    /\ axes = Some(LabelsAfter(Len(files)))
    /\ (axes = Some([xlabel |-> DefaultXLabel, ylabel |-> DefaultYLabel]))
         <=> (OkPositions(Len(files)) = <<>>)

\* A finished waterfall whose first file loaded, with labels of its own,
\* and whose second failed
C10_Witness ==
  /\ Finished("waterfall")
  /\ Len(files) = 2
  /\ Loads(files[1])
  /\ ~Loads(files[2])
  /\ axes.val.xlabel # DefaultXLabel

====
